---- MODULE Spec2Model ----
(***************************************************************************)
(* Model of main.py (MeteoXabia API): the two text extractors parse_avamet *)
(* and parse_wx9, the station cache of scrape_station, the station         *)
(* registry and the HTTP handlers.                                         *)
(*                                                                         *)
(* Text is a sequence of one-character strings.  The non-ASCII characters  *)
(* of the source are written as the tokens "deg" (degree sign), "aacute",  *)
(* "iacute", "oacute" and "ntilde".  A float is an integer number of       *)
(* hundredths (12.5 is 1250).  A Python dict is a function whose DOMAIN is *)
(* the set of its keys.                                                    *)
(***************************************************************************)
EXTENDS Integers, Sequences, FiniteSets, TLC

\* ------------------------------------------------------------------------
\* Bounds of the model
MaxFrags == 2        \* fragments per page in the extractor specification
TickStep == 60       \* seconds added by one tick of the clock
MaxClock == 180      \* the clock stops ticking here
NThreads == 2        \* concurrent scrape_station calls

\* ------------------------------------------------------------------------
\* Program constants
CACHE_TTL == 120

\* ------------------------------------------------------------------------
\* Characters and strings
Digits == {"0", "1", "2", "3", "4", "5", "6", "7", "8", "9"}
Signs == {"-", "+"}
Space == {" "}
SepClass == {":", " "}

DigitVal(c) ==
  CASE c = "0" -> 0 [] c = "1" -> 1 [] c = "2" -> 2 [] c = "3" -> 3
    [] c = "4" -> 4 [] c = "5" -> 5 [] c = "6" -> 6 [] c = "7" -> 7
    [] c = "8" -> 8 [] c = "9" -> 9

UpperChars == <<"A", "B", "C", "D", "E", "F", "G", "H", "I", "J", "K", "L", "M", "N", "O", "P", "Q", "R", "S", "T", "U", "V", "W", "X", "Y", "Z">>
LowerChars == <<"a", "b", "c", "d", "e", "f", "g", "h", "i", "j", "k", "l", "m", "n", "o", "p", "q", "r", "s", "t", "u", "v", "w", "x", "y", "z">>

\* str.lower() on one character
LowerChar(c) ==
  IF \E i \in 1..Len(UpperChars) : UpperChars[i] = c
  THEN LowerChars[CHOOSE i \in 1..Len(UpperChars) : UpperChars[i] = c]
  ELSE c

Lower(s) == [i \in 1..Len(s) |-> LowerChar(s[i])]

MinOf(S) == CHOOSE x \in S : \A y \in S : x <= y

\* the literal lit occurs in s at position i; ci is re.I
SubAt(s, i, lit, ci) ==
  /\ i >= 1
  /\ i + Len(lit) - 1 <= Len(s)
  /\ \A k \in 1..Len(lit) :
       IF ci THEN LowerChar(s[i + k - 1]) = LowerChar(lit[k])
       ELSE s[i + k - 1] = lit[k]

\* Python's "k in low"
Contains(s, lit) == \E i \in 1..(Len(s) + 1) : SubAt(s, i, lit, FALSE)

\* str.strip()
Strip(s) ==
  LET keep == {i \in 1..Len(s) : s[i] \notin Space}
  IN IF keep = {} THEN <<>>
     ELSE SubSeq(s, MinOf(keep), CHOOSE x \in keep : \A y \in keep : y <= x)

\* first index >= i whose character is outside cls (Len(s)+1 if none):
\* where a greedy cls* started at i stops
SkipClass(s, i, cls) ==
  MinOf({j \in i..(Len(s) + 1) : j = Len(s) + 1 \/ s[j] \notin cls})

\* ------------------------------------------------------------------------
\* Numbers: [-+]?\d+(?:[\.,]\d+)?  (re_num has "\." only, after replace)
\* index of the last character of the greedy match at i, 0 if no match
NumEnd(s, i, fracSeps) ==
  LET j == IF i <= Len(s) /\ s[i] \in Signs THEN i + 1 ELSE i
  IN IF ~(i >= 1 /\ j <= Len(s) /\ s[j] \in Digits) THEN 0
     ELSE LET k == SkipClass(s, j, Digits) - 1
          IN IF k + 2 <= Len(s) /\ s[k + 1] \in fracSeps /\ s[k + 2] \in Digits
             THEN SkipClass(s, k + 2, Digits) - 1
             ELSE k

RECURSIVE IntOf(_)
IntOf(ds) ==
  IF ds = <<>> THEN 0
  ELSE 10 * IntOf(SubSeq(ds, 1, Len(ds) - 1)) + DigitVal(ds[Len(ds)])

\* float(text.replace(",", ".")) of the matched text s[i..e], in hundredths
\* (pages carry at most two fractional digits)
NumVal(s, i, e) ==
  LET neg == s[i] = "-"
      j == IF s[i] \in Signs THEN i + 1 ELSE i
      k == SkipClass(s, j, Digits) - 1
      whole == IntOf(SubSeq(s, j, k))
      fr == IF k < e THEN SubSeq(s, k + 2, e) ELSE <<>>
      frac == IF Len(fr) = 0 THEN 0
              ELSE IF Len(fr) = 1 THEN 10 * IntOf(fr)
              ELSE IntOf(SubSeq(fr, 1, 2))
      mag == 100 * whole + frac
  IN IF neg THEN 0 - mag ELSE mag

\* a match: <<value, index after the match>>; no match: <<>>
NoMatch == <<>>

\* extract_number: first number of s as a float, <<>> for None
extract_number(s) ==
  LET r == [i \in 1..Len(s) |-> IF s[i] = "," THEN "." ELSE s[i]]
      I == {i \in 1..Len(r) : NumEnd(r, i, {"."}) > 0}
  IN IF s = <<>> \/ I = {} THEN <<>>
     ELSE <<NumVal(r, MinOf(I), NumEnd(r, MinOf(I), {"."}))>>

\* round(n / d) to the nearest integer
RoundDiv(n, d) == (2 * n + d) \div (2 * d)

\* ------------------------------------------------------------------------
\* re.search: the match at the leftmost position, M(i) being the match of
\* the pattern anchored at i
Search(s, M(_)) ==
  LET I == {i \in 1..Len(s) : M(i) # NoMatch}
  IN IF I = {} THEN NoMatch ELSE M(MinOf(I))

\* (A|B|...) rest: the first alternative, in order, with which the rest of
\* the pattern matches
FirstAlt(labels, M(_)) ==
  LET K == {k \in 1..Len(labels) : M(labels[k]) # NoMatch}
  IN IF K = {} THEN NoMatch ELSE M(labels[MinOf(K)])

\* label[:\s]*(NUM) anchored at i
LabelSepNumAt(s, i, label, ci) ==
  IF ~SubAt(s, i, label, ci) THEN NoMatch
  ELSE LET p == SkipClass(s, i + Len(label), SepClass)
           e == NumEnd(s, p, {".", ","})
       IN IF e = 0 THEN NoMatch ELSE <<NumVal(s, p, e), e + 1>>

\* label.{0,k}?(NUM) anchored at i
LabelLazyNumAt(s, i, label, ci, k) ==
  IF ~SubAt(s, i, label, ci) THEN NoMatch
  ELSE LET p0 == i + Len(label)
           J == {j \in 0..k : p0 + j <= Len(s) /\ NumEnd(s, p0 + j, {".", ","}) > 0}
       IN IF J = {} THEN NoMatch
          ELSE LET p == p0 + MinOf(J)
                   e == NumEnd(s, p, {".", ","})
               IN <<NumVal(s, p, e), e + 1>>

\* label[^\d\-+]*?(NUM) anchored at i
LabelSkipNumAt(s, i, label, ci) ==
  IF ~SubAt(s, i, label, ci) THEN NoMatch
  ELSE LET Q == {q \in (i + Len(label))..Len(s) : s[q] \in Digits \cup Signs}
       IN IF Q = {} \/ NumEnd(s, MinOf(Q), {".", ","}) = 0 THEN NoMatch
          ELSE <<NumVal(s, MinOf(Q), NumEnd(s, MinOf(Q), {".", ","})),
                 NumEnd(s, MinOf(Q), {".", ","}) + 1>>

\* (NUM)\s*deg\s*C|(NUM)\s*degC anchored at i (lines 71 and 147)
BareDegCAt(s, i) ==
  LET e == NumEnd(s, i, {".", ","})
      q == SkipClass(s, e + 1, Space)
      q2 == SkipClass(s, q + 1, Space)
  IN IF e > 0 /\ q <= Len(s) /\ s[q] = "deg" /\ q2 <= Len(s) /\ s[q2] = "C"
     THEN <<NumVal(s, i, e), q2 + 1>>
     ELSE NoMatch

\* \s*(u1|u2|...)? after a number: the text of the unit, <<>> for None
UnitAfter(s, after, units) ==
  LET q == SkipClass(s, after, Space)
      K == {k \in 1..Len(units) : SubAt(s, q, units[k], TRUE)}
  IN IF K = {} THEN <<>> ELSE SubSeq(s, q, q + Len(units[MinOf(K)]) - 1)

\* " | ".join(text_items)
RECURSIVE Join(_)
Join(items) ==
  IF items = <<>> THEN <<>>
  ELSE IF Len(items) = 1 THEN items[1]
  ELSE items[1] \o <<" ", "|", " ">> \o Join(Tail(items))

\* ------------------------------------------------------------------------
\* parse_avamet: primary patterns on the combined text
AvTempLabels == << <<"T", "e", "m", "p", "e", "r", "a", "t", "u", "r", "e">>, <<"t", "e", "m", "p", "e", "r", "a", "t", "u", "r", "e">>, <<"T", "e", "m", "p">>, <<"t", "e", "m", "p">>,
                   <<"T", "e", "m", "p", "e", "r", "a", "t", "u", "r", "a">>, <<"T", "e", "m", "p", "e", "r", "a", "t", "u", "r", "a", ":">> >>
AvHumLabels == << <<"H", "u", "m">>, <<"H", "u", "m", "e", "d", "a", "d">>, <<"H", "u", "m", "i", "d", "i", "t", "y">> >>
AvWindLabels == << <<"W", "i", "n", "d">>, <<"V", "i", "e", "n", "t", "o">>, <<"V", "e", "l", "o", "c", "i", "d", "a", "d", " ", "d", "e", "l", " ", "v", "i", "e", "n", "t", "o">> >>
AvWindUnits == << <<"k", "m", "/", "h">>, <<"k", "p", "h">>, <<"m", "/", "s">> >>
AvRainLabels == << <<"R", "a", "i", "n">>, <<"L", "l", "u", "v", "i", "a">> >>
AvMaxLabels == << <<"M", "a", "x", "i", "m", "u", "m", " ", "T", "e", "m", "p", "e", "r", "a", "t", "u", "r", "e">>, <<"M", "a", "x", "i", "m", "u", "m", " ", "T", "e", "m", "p">>,
                  <<"M", "a", "x", " ", "T", "e", "m", "p", "e", "r", "a", "t", "u", "r", "e">>, <<"M", "a", "x", " ", "T", "e", "m", "p">>,
                  <<"M", "aacute", "x", "i", "m", "a", " ", "t", "e", "m", "p", "e", "r", "a", "t", "u", "r", "a">>, <<"M", "aacute", "x", " ", "t", "e", "m", "p", "e", "r", "a", "t", "u", "r", "a">>,
                  <<"T", "e", "m", "p", "e", "r", "a", "t", "u", "r", "a", " ", "m", "aacute", "x", "i", "m", "a">> >>
AvMinLabels == << <<"M", "i", "n", "i", "m", "u", "m", " ", "T", "e", "m", "p", "e", "r", "a", "t", "u", "r", "e">>, <<"M", "i", "n", "i", "m", "u", "m", " ", "T", "e", "m", "p">>,
                  <<"M", "i", "n", " ", "T", "e", "m", "p", "e", "r", "a", "t", "u", "r", "e">>, <<"M", "i", "n", " ", "T", "e", "m", "p">>,
                  <<"M", "iacute", "n", "i", "m", "a", " ", "t", "e", "m", "p", "e", "r", "a", "t", "u", "r", "a">>, <<"M", "iacute", "n", " ", "t", "e", "m", "p", "e", "r", "a", "t", "u", "r", "a">>,
                  <<"T", "e", "m", "p", "e", "r", "a", "t", "u", "r", "a", " ", "m", "iacute", "n", "i", "m", "a">> >>
AvMonthLabels == << <<"M", "o", "n", "t", "h">>, <<"M", "e", "s">> >>
AvYearLabels == << <<"Y", "e", "a", "r">>, <<"A", "ntilde", "o">> >>

\* label[:\s]*(NUM)\s*deg?C, case-sensitive (line 66)
AvTempAt(s, i, label) ==
  LET m == LabelSepNumAt(s, i, label, FALSE)
  IN IF m = NoMatch THEN NoMatch
     ELSE LET q == SkipClass(s, m[2], Space)
              q2 == IF q <= Len(s) /\ s[q] = "deg" THEN q + 1 ELSE q
          IN IF q2 <= Len(s) /\ s[q2] = "C" THEN <<m[1], q2 + 1>> ELSE NoMatch

\* lines 66-74
AvTemperature(c) ==
  LET m == Search(c, LAMBDA i : FirstAlt(AvTempLabels, LAMBDA l : AvTempAt(c, i, l)))
  IN IF m # NoMatch THEN m ELSE Search(c, LAMBDA i : BareDegCAt(c, i))

\* line 76
AvHumidity(c) ==
  Search(c, LAMBDA i : FirstAlt(AvHumLabels, LAMBDA l : LabelSepNumAt(c, i, l, TRUE)))

\* lines 80-87: the value in km/h, rounded to two decimals
AvWind(c) ==
  LET m == Search(c, LAMBDA i : FirstAlt(AvWindLabels, LAMBDA l : LabelSepNumAt(c, i, l, TRUE)))
  IN IF m = NoMatch THEN NoMatch
     ELSE LET unit == UnitAfter(c, m[2], AvWindUnits)
          IN IF Contains(unit, <<"m", "/", "s">>)
             THEN <<RoundDiv(m[1] * 36, 10), m[2]>>
             ELSE m

LazySearch(c, labels, k) ==
  Search(c, LAMBDA i : FirstAlt(labels, LAMBDA l : LabelLazyNumAt(c, i, l, TRUE, k)))

SkipSearch(c, labels) ==
  Search(c, LAMBDA i : FirstAlt(labels, LAMBDA l : LabelSkipNumAt(c, i, l, TRUE)))

\* fm with key f set to the value of the match m, unchanged if no match
SetIf(fm, f, m) == IF m = NoMatch THEN fm ELSE (f :> m[1]) @@ fm

\* lines 56-105 of parse_avamet: fm after the primary patterns
AvPrimary(items) ==
  LET c == Join(items)
      r1 == SetIf(<<>>, "temperature", AvTemperature(c))
      r2 == SetIf(r1, "humidity", AvHumidity(c))
      r3 == SetIf(r2, "wind_speed_kmh", AvWind(c))
      r4 == SetIf(r3, "rain_mm", LazySearch(c, AvRainLabels, 15))
      r5 == SetIf(r4, "day_temp_max", SkipSearch(c, AvMaxLabels))
      r6 == SetIf(r5, "day_temp_min", SkipSearch(c, AvMinLabels))
      r7 == SetIf(r6, "month_rain_mm", LazySearch(c, AvMonthLabels, 15))
  IN SetIf(r7, "year_rain_mm", LazySearch(c, AvYearLabels, 15))

\* ------------------------------------------------------------------------
\* The labeled fallback scan (lines 114-133 and 179-198)
HasColon(t) == \E i \in 1..Len(t) : t[i] = ":"

\* t.split(":", 1), both sides stripped
FirstColon(t) == MinOf({i \in 1..Len(t) : t[i] = ":"})
LeftOf(t) == Strip(SubSeq(t, 1, FirstColon(t) - 1))
RightOf(t) == Strip(SubSeq(t, FirstColon(t) + 1, Len(t)))

\* the label is compared for equality with the keywords
AnyIn_equal(low, kws) == \E k \in 1..Len(kws) : low = kws[k]

\* any(k in low for k in kws)
AnyIn(low, kws) == \E k \in 1..Len(kws) : Contains(low, kws[k])

\* one "if any(...)" block of the scan: guarded is the presence of the
\* test '"field" not in fm'
ScanRule(fm, f, kws, guarded, low, right) ==
  LET v == extract_number(right)
  IN IF AnyIn(low, kws) /\ v # <<>> /\ (guarded => f \notin DOMAIN fm)
     THEN (f :> v[1]) @@ fm
     ELSE fm

AvHumKeys == << <<"h", "u", "m">>, <<"h", "u", "m", "e", "d", "a", "d">>, <<"h", "u", "m", "i", "d", "i", "t", "y">> >>
TempKeys == << <<"t", "e", "m", "p">>, <<"t", "e", "m", "p", "e", "r", "a", "t", "u", "r", "a">> >>
WindKeys == << <<"w", "i", "n", "d">>, <<"v", "i", "e", "n", "t", "o">> >>
AvRainKeys == << <<"r", "a", "i", "n">>, <<"l", "l", "u", "v", "i", "a">> >>
WxHumKeys == << <<"h", "u", "m", "i", "d", "i", "t", "y">>, <<"h", "u", "m", "e", "d", "a", "d">> >>
WxRainKeys == << <<"r", "a", "i", "n">>, <<"l", "l", "u", "v", "i", "a">>, <<"p", "r", "e", "c", "i", "p">> >>

\* body of the loop of parse_avamet for the fragment t (lines 115-133)
AvScan(fm, t) ==
  IF ~HasColon(t) THEN fm
  ELSE LET low == Lower(LeftOf(t))
           right == RightOf(t)
           r1 == ScanRule(fm, "humidity", AvHumKeys, FALSE, low, right)
           r2 == ScanRule(r1, "temperature", TempKeys, TRUE, low, right)
           r3 == ScanRule(r2, "wind_speed_kmh", WindKeys, TRUE, low, right)
       IN ScanRule(r3, "rain_mm", AvRainKeys, TRUE, low, right)

\* body of the loop of parse_wx9 for the fragment t (lines 180-198)
WxScan(fm, t) ==
  IF ~HasColon(t) THEN fm
  ELSE LET low == Lower(LeftOf(t))
           right == RightOf(t)
           r1 == ScanRule(fm, "humidity", WxHumKeys, FALSE, low, right)
           r2 == ScanRule(r1, "temperature", TempKeys, TRUE, low, right)
           r3 == ScanRule(r2, "wind_speed_kmh", WindKeys, TRUE, low, right)
       IN ScanRule(r3, "rain_mm", WxRainKeys, TRUE, low, right)

\* ------------------------------------------------------------------------
\* parse_wx9: primary patterns on the combined text
WxHumLabels == << <<"H", "u", "m", "i", "d", "i", "t", "y">> >>
WxWindLabels == << <<"W", "i", "n", "d", " ", "S", "p", "e", "e", "d">>, <<"W", "i", "n", "d">> >>
WxWindUnits == << <<"k", "m", "/", "h">>, <<"k", "p", "h">>, <<"m", "p", "h">>, <<"m", "/", "s">> >>
WxRainLabels == << <<"R", "a", "i", "n">>, <<"P", "r", "e", "c", "i", "p", "i", "t", "a", "t", "i", "o", "n">>, <<"P", "r", "e", "c", "i", "p", "i", "t", "a", "c", "i", "oacute", "n">>, <<"L", "l", "u", "v", "i", "a">> >>
WxMaxLabels == << <<"M", "a", "x", "i", "m", "u", "m", " ", "T", "e", "m", "p", "e", "r", "a", "t", "u", "r", "e">>, <<"M", "a", "x", "i", "m", "u", "m", " ", "T", "e", "m", "p">>,
                  <<"M", "a", "x", " ", "T", "e", "m", "p", "e", "r", "a", "t", "u", "r", "e">>, <<"M", "a", "x", " ", "T", "e", "m", "p">> >>
WxMinLabels == << <<"M", "i", "n", "i", "m", "u", "m", " ", "T", "e", "m", "p", "e", "r", "a", "t", "u", "r", "e">>, <<"M", "i", "n", "i", "m", "u", "m", " ", "T", "e", "m", "p">>,
                  <<"M", "i", "n", " ", "T", "e", "m", "p", "e", "r", "a", "t", "u", "r", "e">>, <<"M", "i", "n", " ", "T", "e", "m", "p">> >>
WxMaxWindLabels == << <<"M", "a", "x", " ", "W", "i", "n", "d">> >>

\* Humidity[:\s]*(NUM)\s*% anchored at i (line 152)
WxHumAt(s, i, label) ==
  LET m == LabelSepNumAt(s, i, label, TRUE)
  IN IF m = NoMatch THEN NoMatch
     ELSE LET q == SkipClass(s, m[2], Space)
          IN IF q <= Len(s) /\ s[q] = "%" THEN <<m[1], q + 1>> ELSE NoMatch

WxHumidity(c) ==
  Search(c, LAMBDA i : FirstAlt(WxHumLabels, LAMBDA l : WxHumAt(c, i, l)))

\* lines 156-164
WxWind(c) ==
  LET m == Search(c, LAMBDA i : FirstAlt(WxWindLabels, LAMBDA l : LabelSepNumAt(c, i, l, TRUE)))
  IN IF m = NoMatch THEN NoMatch
     ELSE LET unit == Lower(UnitAfter(c, m[2], WxWindUnits))
              v1 == IF Contains(unit, <<"m", "p", "h">>)
                    THEN RoundDiv(m[1] * 160934, 100000) ELSE m[1]
          IN IF Contains(unit, <<"m", "/", "s">>)
             THEN <<RoundDiv(m[1] * 36, 10), m[2]>>
             ELSE <<v1, m[2]>>

\* lines 138-177 of parse_wx9: fm after the primary patterns
WxPrimary(items) ==
  LET c == Join(items)
      r1 == SetIf(<<>>, "temperature", Search(c, LAMBDA i : BareDegCAt(c, i)))
      r2 == SetIf(r1, "humidity", WxHumidity(c))
      r3 == SetIf(r2, "wind_speed_kmh", WxWind(c))
      r4 == SetIf(r3, "rain_mm", LazySearch(c, WxRainLabels, 20))
      r5 == SetIf(r4, "day_temp_max", SkipSearch(c, WxMaxLabels))
      r6 == SetIf(r5, "day_temp_min", SkipSearch(c, WxMinLabels))
  IN SetIf(r6, "day_wind_max", SkipSearch(c, WxMaxWindLabels))

\* ------------------------------------------------------------------------
\* the two extractors, on the text_items of a page
RECURSIVE ScanAll(_, _, _)
ScanAll(fm, items, kind) ==
  IF items = <<>> THEN fm
  ELSE ScanAll(IF kind = "avamet" THEN AvScan(fm, items[1])
               ELSE WxScan(fm, items[1]),
               Tail(items), kind)

parse_avamet(items) == ScanAll(AvPrimary(items), items, "avamet")
parse_wx9(items) == ScanAll(WxPrimary(items), items, "wx9")

\* ------------------------------------------------------------------------
\* Pages: the text_items a fetched page flattens to
FragPool ==
  { <<"H", "u", "m", "i", "t", "a", "t", ":", " ", "6", "1">>, <<"V", "e", "n", "t", ":", " ", "1", "2", " ", "k", "m", "/", "h">>, <<"H", "u", "m", "i", "d", "i", "t", "y", ":", " ", "5", "0", " ", "%">>, <<"H", "u", "m", "e", "d", "a", "d", ":", " ", "6", "1">>,
    <<"T", "e", "m", "p", ":", " ", "2", "1", ",", "5", " ", "deg", "C">>, <<"T", "e", "m", "p", "e", "r", "a", "t", "u", "r", "a", ":", " ", "1", "9">>, <<"V", "i", "e", "n", "t", "o", ":", " ", "1", "0", " ", "m", "/", "s">>,
    <<"W", "i", "n", "d", " ", "S", "p", "e", "e", "d", ":", " ", "1", "0", " ", "m", "p", "h">>, <<"R", "a", "i", "n", " ", "t", "o", "d", "a", "y", ":", " ", "3", ".", "2", " ", "m", "m">>, <<"M", "a", "x", " ", "W", "i", "n", "d", ":", " ", "4", "0", " ", "k", "m", "/", "h">>,
    <<"M", "i", "n", " ", "T", "e", "m", "p", " ", "-", "2", ".", "5">>, <<"M", "a", "x", " ", "T", "e", "m", "p", " ", "2", "5", ".", "1">>, <<"M", "e", "s", ":", " ", "1", "2">>, <<"2", "2", ".", "4", "deg", "C">>, <<"Y", "e", "a", "r", " ", "3", "0", "0">> }

Pages == UNION {[1..n -> FragPool] : n \in 1..MaxFrags}

FallbackOnlyPage == << <<"H", "u", "m", "i", "t", "a", "t", ":", " ", "6", "1">>, <<"V", "e", "n", "t", ":", " ", "1", "2", " ", "k", "m", "/", "h">> >>

\* the pages a fetch may return
FetchPage == << <<"H", "u", "m", "i", "t", "a", "t", ":", " ", "6", "1">>, <<"M", "a", "x", " ", "W", "i", "n", "d", ":", " ", "4", "0", " ", "k", "m", "/", "h">>, <<"R", "a", "i", "n", " ", "t", "o", "d", "a", "y", ":", " ", "3", ".", "2", " ", "m", "m">> >>
FetchPages == {FetchPage}

\* both extractors on each page a fetch may return
ParsedPages ==
  {[page |-> p, avamet |-> parse_avamet(p), wx9 |-> parse_wx9(p)] : p \in FetchPages}

\* ------------------------------------------------------------------------
\* State
VARIABLES
  ESTACIONES,   \* the station registry: id -> configuration
  CACHE,        \* id -> [ts, data]
  clock,        \* time.time(), in seconds
  resp,         \* the last HTTP exchange: request, status, body, network use
  calls,        \* the scrape_station calls in progress (concurrent runs)
  parsed,       \* memo of the extractors (pure functions) on the fetchable pages
  text_items,   \* extractor run: the fragments of the page
  variant,      \* extractor run: which extractor
  pc,           \* extractor run: "primary", "scan", "done"
  idx,          \* extractor run: the next fragment of the scan
  res           \* extractor run: the field map being filled

vars == <<ESTACIONES, CACHE, clock, resp, calls, parsed, text_items, variant, pc, idx, res>>
extractorVars == <<text_items, variant, pc, idx, res>>
serverVars == <<ESTACIONES, CACHE, clock, resp, calls, parsed>>

ESTACIONES0 ==
  [port |-> [id |-> "port", nombre |-> "Xabia - Port",
             url |-> "https://www.meteoxabia.com/estacions/port/avamet.htm",
             tipo |-> "avamet"],
   lluca |-> [id |-> "lluca", nombre |-> "Xabia - Lluca/Rafalet",
              url |-> "https://www.meteoxabia.com/estacions/lluca/wx9.html",
              tipo |-> "wx9"],
   faro |-> [id |-> "faro", nombre |-> "Xabia - Faro Cabo de la Nao",
             url |-> "https://www.meteoxabia.com/estacions/farolanao/wx9.html",
             tipo |-> "wx9"]]

NoResp == [op |-> "none"]

ServerIdle ==
  /\ ESTACIONES = ESTACIONES0
  /\ CACHE = <<>>
  /\ clock = 0
  /\ resp = NoResp
  /\ calls = <<>>
  /\ parsed = ParsedPages

\* ------------------------------------------------------------------------
\* Specification of one extractor run, step by step
InitParse ==
  /\ ESTACIONES = ESTACIONES0
  /\ CACHE = <<>>
  /\ clock = 0
  /\ resp = NoResp
  /\ calls = <<>>
  /\ parsed = {}
  /\ text_items \in Pages
  /\ variant \in {"avamet", "wx9"}
  /\ pc = "primary"
  /\ idx = 0
  /\ res = <<>>

\* lines 56-105 / 138-177
Primary ==
  /\ pc = "primary"
  /\ res' = IF variant = "avamet" THEN AvPrimary(text_items) ELSE WxPrimary(text_items)
  /\ pc' = "scan"
  /\ idx' = 1
  /\ UNCHANGED <<text_items, variant, serverVars>>

\* one iteration of "for t in text_items" (lines 114-133 / 179-198)
ScanStep ==
  /\ pc = "scan"
  /\ idx <= Len(text_items)
  /\ res' = IF variant = "avamet" THEN AvScan(res, text_items[idx])
            ELSE WxScan(res, text_items[idx])
  /\ idx' = idx + 1
  /\ UNCHANGED <<text_items, variant, pc, serverVars>>

\* return res
Return ==
  /\ pc = "scan"
  /\ idx > Len(text_items)
  /\ pc' = "done"
  /\ UNCHANGED <<text_items, variant, idx, res, serverVars>>

NextParse == Primary \/ ScanStep \/ Return

SpecParse == InitParse /\ [][NextParse]_vars

\* ------------------------------------------------------------------------
\* Station registry and cache
Get(d, k) == IF k \in DOMAIN d THEN <<d[k]>> ELSE <<>>   \* dict.get: <<>> is None
Put(d, k, v) == (k :> v) @@ d                            \* d[k] = v

\* line 315: all(k in item for k in ("id", "nombre", "url"))
HasRequired(item) == {"id", "nombre", "url"} \subseteq DOMAIN item

\* the default of tipo is "wx9"
StationOf_default_wx9(item) ==
  [id |-> item.id, nombre |-> item.nombre, url |-> item.url,
   tipo |-> IF "tipo" \in DOMAIN item THEN item.tipo ELSE "wx9"]

\* lines 318-323: the registry entry built from the request body
StationOf(item) ==
  [id |-> item.id, nombre |-> item.nombre, url |-> item.url,
   tipo |-> IF "tipo" \in DOMAIN item THEN item.tipo ELSE "avamet"]

\* the entry is still fresh at exactly CACHE_TTL seconds
IsFresh_inclusive(cache, sid, now) ==
  sid \in DOMAIN cache /\ now - cache[sid].ts <= CACHE_TTL

\* the comparison is inverted
IsFresh_inverted(cache, sid, now) ==
  sid \in DOMAIN cache /\ now - cache[sid].ts > CACHE_TTL

\* lines 207-208: cached and now - cached["ts"] < CACHE_TTL
IsFresh(cache, sid, now) ==
  sid \in DOMAIN cache /\ now - cache[sid].ts < CACHE_TTL

\* line 215
ErrorSnapshot(url, kind) == [error |-> kind, url |-> url]

\* avamet for every tipo other than "wx9"
Extractor_default_avamet(station) ==
  LET t == IF "tipo" \in DOMAIN station THEN station.tipo ELSE "avamet"
  IN IF t = "wx9" THEN "wx9" ELSE "avamet"

\* lines 219-223: which extractor runs for the station
Extractor(station) ==
  LET t == IF "tipo" \in DOMAIN station THEN station.tipo ELSE "avamet"
  IN IF t = "avamet" THEN "avamet" ELSE "wx9"

\* lines 225-231
Snapshot(station, now, extracted) ==
  [id |-> station.id, nombre |-> station.nombre, url |-> station.url,
   fetched_at |-> now, datos |-> extracted]

\* parse_avamet(soup) and parse_wx9(soup) for the page p, from the memo
Parsed(p) == CHOOSE r \in parsed : r.page = p

\* lines 210-233: the snapshot built from the outcome of requests.get
FetchedData(station, now, outcome) ==
  IF outcome.kind # "ok" THEN ErrorSnapshot(station.url, outcome.kind)
  ELSE Snapshot(station, now,
                IF Extractor(station) = "avamet" THEN Parsed(outcome.page).avamet
                ELSE Parsed(outcome.page).wx9)

\* an error snapshot is returned without being stored
scrape_station_error_not_stored(cache, station, now, outcome) ==
  IF IsFresh(cache, station.id, now)
  THEN [data |-> cache[station.id].data, cache |-> cache,
        fetch |-> "none", parser |-> "none"]
  ELSE LET data == FetchedData(station, now, outcome)
       IN [data |-> data,
           cache |-> IF outcome.kind = "ok"
                     THEN Put(cache, station.id, [ts |-> now, data |-> data])
                     ELSE cache,
           fetch |-> outcome.kind,
           parser |-> IF outcome.kind = "ok" THEN Extractor(station) ELSE "none"]

\* scrape_station run without interruption at time now: the returned
\* data, the cache afterwards, what the network did, which extractor ran
scrape_station(cache, station, now, outcome) ==
  IF IsFresh(cache, station.id, now)
  THEN [data |-> cache[station.id].data, cache |-> cache,
        fetch |-> "none", parser |-> "none"]
  ELSE LET data == FetchedData(station, now, outcome)
       IN [data |-> data,
           cache |-> Put(cache, station.id, [ts |-> now, data |-> data]),
           fetch |-> outcome.kind,
           parser |-> IF outcome.kind = "ok" THEN Extractor(station) ELSE "none"]

\* ------------------------------------------------------------------------
\* Inputs
FetchOutcomes ==
  { [kind |-> "fetch_error: network"], [kind |-> "fetch_error: http_status"] }
  \cup {[kind |-> "ok", page |-> p] : p \in FetchPages}

ErrorKinds == {"fetch_error: network", "fetch_error: http_status"}

GetIds == {"port", "t1"}
AddUrls == {"http://example.invalid", "http://example.org/wx9.html"}
AddTipos == {"wx9", "davis"}

AddItems ==
  {[id |-> "t1", nombre |-> "Test", url |-> u] : u \in AddUrls}
  \cup {[id |-> "t1", nombre |-> "Test", url |-> u, tipo |-> t] :
          u \in AddUrls, t \in AddTipos}
  \cup { [nombre |-> "Test", url |-> "http://example.invalid"],
         [id |-> "t1", url |-> "http://example.invalid", tipo |-> "wx9"],
         [id |-> "t1", nombre |-> "Test"] }

\* ------------------------------------------------------------------------
\* View projections (lines 254-261, 270-277, 286-292, 301-307)
\* a or b
Or(a, b) == IF a # <<>> /\ a # <<0>> THEN a ELSE b

Datos(data) == IF "datos" \in DOMAIN data THEN data.datos ELSE <<>>

\* lines 254-261
view_now(data) ==
  [temperature |-> Get(Datos(data), "temperature"),
   humidity |-> Get(Datos(data), "humidity"),
   wind_kmh |-> Get(Datos(data), "wind_speed_kmh"),
   rain_mm |-> Get(Datos(data), "rain_mm"),
   fetched_at |-> Get(data, "fetched_at")]

view_day(data) ==
  [day_max_temp |-> Get(Datos(data), "day_temp_max"),
   day_min_temp |-> Get(Datos(data), "day_temp_min"),
   day_max_wind |-> Get(Datos(data), "day_wind_max"),
   rain_today |-> Or(Get(Datos(data), "rain_today"), Get(Datos(data), "rain_mm")),
   fetched_at |-> Get(data, "fetched_at")]

view_month(data) ==
  [month_rain_mm |-> Get(Datos(data), "month_rain_mm"),
   month_max_temp |-> Get(Datos(data), "month_temp_max"),
   month_min_temp |-> Get(Datos(data), "month_temp_min"),
   fetched_at |-> Get(data, "fetched_at")]

view_year(data) ==
  [year_rain_mm |-> Get(Datos(data), "year_rain_mm"),
   year_max_temp |-> Get(Datos(data), "year_temp_max"),
   year_min_temp |-> Get(Datos(data), "year_temp_min"),
   fetched_at |-> Get(data, "fetched_at")]

\* ------------------------------------------------------------------------
\* HTTP handlers, each run without interruption
NotFound(op, station_id) ==
  [op |-> op, sid |-> station_id, status |-> 404,
   body |-> "Estacion no encontrada", data |-> <<>>,
   fetch |-> "none", parser |-> "none"]

Served(op, station_id, status, body, r) ==
  [op |-> op, sid |-> station_id, status |-> status, body |-> body,
   data |-> r.data, fetch |-> r.fetch, parser |-> r.parser]

\* lines 242-248
api_estacion_completo(station_id) ==
  \E outcome \in FetchOutcomes :
    IF station_id \notin DOMAIN ESTACIONES
    THEN /\ resp' = NotFound("completo", station_id)
         /\ UNCHANGED <<ESTACIONES, CACHE, clock, calls, parsed, extractorVars>>
    ELSE LET r == scrape_station(CACHE, ESTACIONES[station_id], clock, outcome)
         IN /\ CACHE' = r.cache
            /\ resp' = Served("completo", station_id, 200, r.data, r)
            /\ UNCHANGED <<ESTACIONES, clock, calls, parsed, extractorVars>>

\* lines 250-262: api_estacion_completo returns a JSONResponse, which has
\* no attribute "get": line 254 raises AttributeError after the scrape,
\* and the server answers 500
api_estacion_ahora(station_id) ==
  \E outcome \in FetchOutcomes :
    IF station_id \notin DOMAIN ESTACIONES
    THEN /\ resp' = NotFound("ahora", station_id)
         /\ UNCHANGED <<ESTACIONES, CACHE, clock, calls, parsed, extractorVars>>
    ELSE LET r == scrape_station(CACHE, ESTACIONES[station_id], clock, outcome)
         IN /\ CACHE' = r.cache
            /\ resp' = Served("ahora", station_id, 500, "Internal Server Error", r)
            /\ UNCHANGED <<ESTACIONES, clock, calls, parsed, extractorVars>>

\* lines 264-278
api_estacion_dia(station_id) ==
  \E outcome \in FetchOutcomes :
    IF station_id \notin DOMAIN ESTACIONES
    THEN /\ resp' = NotFound("dia", station_id)
         /\ UNCHANGED <<ESTACIONES, CACHE, clock, calls, parsed, extractorVars>>
    ELSE LET r == scrape_station(CACHE, ESTACIONES[station_id], clock, outcome)
         IN /\ CACHE' = r.cache
            /\ resp' = Served("dia", station_id, 200, view_day(r.data), r)
            /\ UNCHANGED <<ESTACIONES, clock, calls, parsed, extractorVars>>

\* lines 280-293
api_estacion_mes(station_id) ==
  \E outcome \in FetchOutcomes :
    IF station_id \notin DOMAIN ESTACIONES
    THEN /\ resp' = NotFound("mes", station_id)
         /\ UNCHANGED <<ESTACIONES, CACHE, clock, calls, parsed, extractorVars>>
    ELSE LET r == scrape_station(CACHE, ESTACIONES[station_id], clock, outcome)
         IN /\ CACHE' = r.cache
            /\ resp' = Served("mes", station_id, 200, view_month(r.data), r)
            /\ UNCHANGED <<ESTACIONES, clock, calls, parsed, extractorVars>>

\* lines 295-308
api_estacion_anio(station_id) ==
  \E outcome \in FetchOutcomes :
    IF station_id \notin DOMAIN ESTACIONES
    THEN /\ resp' = NotFound("anio", station_id)
         /\ UNCHANGED <<ESTACIONES, CACHE, clock, calls, parsed, extractorVars>>
    ELSE LET r == scrape_station(CACHE, ESTACIONES[station_id], clock, outcome)
         IN /\ CACHE' = r.cache
            /\ resp' = Served("anio", station_id, 200, view_year(r.data), r)
            /\ UNCHANGED <<ESTACIONES, clock, calls, parsed, extractorVars>>

\* lines 312-324
api_add_station(item) ==
  IF ~HasRequired(item)
  THEN /\ resp' = [op |-> "add", item |-> item, status |-> 400,
                   body |-> "Faltan campos id/nombre/url"]
       /\ UNCHANGED <<ESTACIONES, CACHE, clock, calls, parsed, extractorVars>>
  ELSE /\ ESTACIONES' = Put(ESTACIONES, item.id, StationOf(item))
       /\ resp' = [op |-> "add", item |-> item, status |-> 200,
                   body |-> [ok |-> TRUE, estacion |-> StationOf(item)]]
       /\ UNCHANGED <<CACHE, clock, calls, parsed, extractorVars>>

\* time passes between two requests
Tick ==
  /\ clock + TickStep <= MaxClock
  /\ clock' = clock + TickStep
  /\ UNCHANGED <<ESTACIONES, CACHE, resp, calls, parsed, extractorVars>>

ExtractorIdle ==
  /\ text_items = <<>>
  /\ variant = "avamet"
  /\ pc = "done"
  /\ idx = 0
  /\ res = <<>>

Init == ServerIdle /\ ExtractorIdle

Next ==
  \/ Tick
  \/ \E item \in AddItems : api_add_station(item)
  \/ \E station_id \in GetIds : api_estacion_completo(station_id)
  \/ \E station_id \in GetIds : api_estacion_ahora(station_id)
  \/ \E station_id \in GetIds : api_estacion_dia(station_id)
  \/ \E station_id \in GetIds : api_estacion_mes(station_id)
  \/ \E station_id \in GetIds : api_estacion_anio(station_id)

Spec == Init /\ [][Next]_vars

\* ------------------------------------------------------------------------
\* Concurrent scrape_station calls: the handlers are plain "def" functions,
\* which the server runs on a thread pool, and the cache has no lock.  A
\* call reads the clock and the cache (lines 204-209), then waits for
\* requests.get, then stores (lines 211-233).
Threads == 1..NThreads
ConcIds == {"port"}

InitConc ==
  /\ ESTACIONES = ESTACIONES0
  /\ CACHE = <<>>
  /\ clock = 0
  /\ resp = NoResp
  /\ calls = [t \in Threads |-> [pc |-> "idle"]]
  /\ parsed = ParsedPages
  /\ ExtractorIdle

\* lines 204-210: entry of scrape_station up to the call of requests.get
ConcBegin(t, station_id) ==
  /\ calls[t].pc # "fetch"
  /\ station_id \in DOMAIN ESTACIONES
  /\ IF IsFresh(CACHE, station_id, clock)
     THEN calls' = [calls EXCEPT ![t] =
                      [pc |-> "hit", station |-> ESTACIONES[station_id],
                       now |-> clock, cached |-> Get(CACHE, station_id)]]
     ELSE calls' = [calls EXCEPT ![t] =
                      [pc |-> "fetch", station |-> ESTACIONES[station_id],
                       now |-> clock, cached |-> Get(CACHE, station_id)]]
  /\ UNCHANGED <<ESTACIONES, CACHE, clock, resp, parsed, extractorVars>>

\* lines 211-233: requests.get returns or raises, the result is stored
ConcFinish(t, outcome) ==
  /\ calls[t].pc = "fetch"
  /\ CACHE' = Put(CACHE, calls[t].station.id,
                  [ts |-> calls[t].now,
                   data |-> FetchedData(calls[t].station, calls[t].now, outcome)])
  /\ calls' = [calls EXCEPT ![t].pc = "stored"]
  /\ UNCHANGED <<ESTACIONES, clock, resp, parsed, extractorVars>>

NextConc ==
  \/ Tick
  \/ \E t \in Threads : \E station_id \in ConcIds : ConcBegin(t, station_id)
  \/ \E t \in Threads : \E outcome \in FetchOutcomes : ConcFinish(t, outcome)

SpecConc == InitConc /\ [][NextConc]_vars

\* ------------------------------------------------------------------------
\* Properties
GetOps == {"completo", "ahora", "dia", "mes", "anio"}
ViewOps == {"ahora", "dia", "mes", "anio"}

\* the step is a station GET request for sid / an add-station request
GetStep(sid) == clock' = clock /\ resp'.op \in GetOps /\ resp'.sid = sid
AddStep(item) == clock' = clock /\ resp'.op = "add" /\ resp'.item = item

\* the last request was a GET for a registered station
ServedStation == resp.op \in GetOps /\ resp.sid \in DOMAIN ESTACIONES

\* C1: a station request that finds a cache entry less than 120 s old does
\* no network fetch, returns the cached snapshot and leaves the cache as it
\* is; a request that finds no entry, or one 120 s old or older, fetches
\* and stores the result with the time of the request.
CacheFreshness ==
  [][\A sid \in GetIds :
       (sid \in DOMAIN ESTACIONES /\ GetStep(sid)) =>
         IF sid \in DOMAIN CACHE /\ clock - CACHE[sid].ts < 120
         THEN /\ resp'.fetch = "none"
              /\ resp'.data = CACHE[sid].data
              /\ CACHE' = CACHE
         ELSE /\ resp'.fetch # "none"
              /\ sid \in DOMAIN CACHE'
              /\ CACHE'[sid].ts = clock]_vars

\* a success snapshot was served from the cache some time after its fetch
CacheHitServed ==
  /\ ServedStation
  /\ resp.fetch = "none"
  /\ "datos" \in DOMAIN resp.data
  /\ resp.sid \in DOMAIN CACHE
  /\ CACHE[resp.sid].data = resp.data
  /\ clock > CACHE[resp.sid].ts
  /\ clock - CACHE[resp.sid].ts < 120

\* C2: a failed fetch (network error or HTTP error status) yields a
\* snapshot with exactly the keys error and url, stored with the time of
\* the request; while that entry is less than 120 s old every request for
\* the station returns it without fetching, and the first request after
\* that fetches again.
ErrorCaching ==
  [][\A sid \in GetIds :
       (sid \in DOMAIN ESTACIONES /\ GetStep(sid)) =>
         /\ resp'.fetch \in ErrorKinds =>
              /\ DOMAIN resp'.data = {"error", "url"}
              /\ resp'.data.url = ESTACIONES[sid].url
              /\ sid \in DOMAIN CACHE'
              /\ CACHE'[sid] = [ts |-> clock, data |-> resp'.data]
         /\ (sid \in DOMAIN CACHE /\ "error" \in DOMAIN CACHE[sid].data) =>
              IF clock - CACHE[sid].ts < 120
              THEN /\ resp'.fetch = "none"
                   /\ resp'.data = CACHE[sid].data
                   /\ CACHE' = CACHE
              ELSE resp'.fetch # "none"]_vars

\* an error snapshot was served from the cache some time after the failure
ErrorReused ==
  /\ ServedStation
  /\ resp.fetch = "none"
  /\ "error" \in DOMAIN resp.data
  /\ resp.sid \in DOMAIN CACHE
  /\ CACHE[resp.sid].data = resp.data
  /\ clock > CACHE[resp.sid].ts

\* C3: during the fallback scan a field that is set keeps its value.
FirstMatchWins ==
  [][pc = "scan" =>
       \A f \in DOMAIN res : f \in DOMAIN res' /\ res'[f] = res[f]]_vars

\* C4: a station GET answers 404 exactly when the station is not
\* registered, and 200 otherwise.
SoftFailStatus ==
  resp.op \in GetOps =>
    /\ resp.status = 404 <=> resp.sid \notin DOMAIN ESTACIONES
    /\ resp.sid \in DOMAIN ESTACIONES => resp.status = 200

\* C5 as stated: after a successful fetch the wx9 extractor ran only if
\* tipo is "wx9", and the avamet extractor ran for every other tipo.
DispatchDefaultAvamet ==
  (ServedStation /\ resp.fetch = "ok") =>
    LET t == ESTACIONES[resp.sid].tipo
    IN /\ resp.parser = IF t = "wx9" THEN "wx9" ELSE "avamet"
       /\ \E p \in FetchPages :
            resp.data.datos = IF t = "wx9" THEN Parsed(p).wx9 ELSE Parsed(p).avamet

\* C5 amended: after a successful fetch the avamet extractor ran exactly
\* when the registered tipo is "avamet" (which is what a request without
\* tipo registers), and the wx9 extractor ran for every other tipo,
\* unrecognized values included.
DispatchByTipo ==
  (ServedStation /\ resp.fetch = "ok") =>
    LET t == ESTACIONES[resp.sid].tipo
    IN /\ resp.parser = IF t = "avamet" THEN "avamet" ELSE "wx9"
       /\ \E p \in FetchPages :
            resp.data.datos = IF t = "avamet" THEN Parsed(p).avamet ELSE Parsed(p).wx9

\* the page of a station with an unrecognized tipo went through parse_wx9
UnrecognizedTipoParsed ==
  /\ ServedStation
  /\ resp.fetch = "ok"
  /\ ESTACIONES[resp.sid].tipo = "davis"
  /\ resp.parser = "wx9"
  /\ resp.data.datos = Parsed(FetchPage).wx9

\* C6: add-station with a body lacking id, nombre or url answers 400 and
\* changes neither registry nor cache; otherwise it sets the entry of the
\* id to {id, nombre, url, tipo} with tipo "avamet" when absent and leaves
\* every other entry as it is; no step removes an id from the registry.
AddStation ==
  [][/\ DOMAIN ESTACIONES \subseteq DOMAIN ESTACIONES'
     /\ \A item \in AddItems :
          AddStep(item) =>
            IF ~({"id", "nombre", "url"} \subseteq DOMAIN item)
            THEN /\ resp'.status = 400
                 /\ ESTACIONES' = ESTACIONES
                 /\ CACHE' = CACHE
            ELSE /\ resp'.status = 200
                 /\ DOMAIN ESTACIONES' = DOMAIN ESTACIONES \cup {item.id}
                 /\ ESTACIONES'[item.id] =
                      [id |-> item.id, nombre |-> item.nombre, url |-> item.url,
                       tipo |-> IF "tipo" \in DOMAIN item THEN item.tipo
                                ELSE "avamet"]
                 /\ \A o \in DOMAIN ESTACIONES \ {item.id} :
                      ESTACIONES'[o] = ESTACIONES[o]
                 /\ CACHE' = CACHE]_vars

\* a request without tipo overwrote a station fetched under another url
StationOverwritten ==
  /\ resp.op = "add"
  /\ resp.status = 200
  /\ "tipo" \notin DOMAIN resp.item
  /\ ESTACIONES[resp.item.id].tipo = "avamet"
  /\ resp.item.id \in DOMAIN CACHE
  /\ CACHE[resp.item.id].data.url # ESTACIONES[resp.item.id].url
  /\ ESTACIONES["port"] = ESTACIONES0["port"]

\* C7 as stated: the fragments "Humitat: 61", "Vent: 12 km/h" yield
\* humidity 61.0 and wind_speed_kmh 12.0.
FallbackOnlyFields ==
  (pc = "done" /\ text_items = FallbackOnlyPage) =>
    /\ Get(res, "humidity") = <<6100>>
    /\ Get(res, "wind_speed_kmh") = <<1200>>

\* the keywords of the scan of each extractor
ScanFields == {"humidity", "temperature", "wind_speed_kmh", "rain_mm"}
ScanKeys(v, f) ==
  CASE f = "humidity" -> IF v = "avamet" THEN AvHumKeys ELSE WxHumKeys
    [] f = "temperature" -> TempKeys
    [] f = "wind_speed_kmh" -> WindKeys
    [] f = "rain_mm" -> IF v = "avamet" THEN AvRainKeys ELSE WxRainKeys

\* C7 amended: the fragments "Humitat: 61", "Vent: 12 km/h" yield only
\* humidity 61.0 with parse_avamet and nothing with parse_wx9 (no keyword
\* occurs in "vent", and parse_wx9 has no keyword "hum"); a fragment
\* "label: value" whose lower-cased label contains a keyword of a field
\* sets that field to the first number of the value side when the field
\* is not set yet.
FallbackByKeyword ==
  [][/\ (pc' = "done" /\ text_items' = FallbackOnlyPage) =>
          res' = IF variant' = "avamet" THEN [humidity |-> 6100] ELSE <<>>
     /\ (pc = "scan" /\ idx' = idx + 1 /\ HasColon(text_items[idx])) =>
          \A f \in ScanFields :
            LET low == Lower(LeftOf(text_items[idx]))
                v == extract_number(RightOf(text_items[idx]))
            IN ( /\ \E k \in 1..Len(ScanKeys(variant, f)) :
                      Contains(low, ScanKeys(variant, f)[k])
                 /\ v # <<>>
                 /\ f \notin DOMAIN res )
               => Get(res', f) = v]_vars

\* parse_avamet returned for the two fragments, humidity set by the scan
FallbackOnlyExtracted ==
  /\ pc = "done"
  /\ text_items = FallbackOnlyPage
  /\ variant = "avamet"
  /\ Get(res, "humidity") = <<6100>>

\* the source field of each key of the projections
ExpectedView(op, data) ==
  LET d == Datos(data)
  IN CASE op = "ahora" ->
            [temperature |-> Get(d, "temperature"), humidity |-> Get(d, "humidity"),
             wind_kmh |-> Get(d, "wind_speed_kmh"), rain_mm |-> Get(d, "rain_mm"),
             fetched_at |-> Get(data, "fetched_at")]
       [] op = "dia" ->
            [day_max_temp |-> Get(d, "day_temp_max"),
             day_min_temp |-> Get(d, "day_temp_min"),
             day_max_wind |-> Get(d, "day_wind_max"),
             rain_today |-> IF "rain_today" \in DOMAIN d THEN Get(d, "rain_today")
                            ELSE Get(d, "rain_mm"),
             fetched_at |-> Get(data, "fetched_at")]
       [] op = "mes" ->
            [month_rain_mm |-> Get(d, "month_rain_mm"),
             month_max_temp |-> Get(d, "month_temp_max"),
             month_min_temp |-> Get(d, "month_temp_min"),
             fetched_at |-> Get(data, "fetched_at")]
       [] op = "anio" ->
            [year_rain_mm |-> Get(d, "year_rain_mm"),
             year_max_temp |-> Get(d, "year_temp_max"),
             year_min_temp |-> Get(d, "year_temp_min"),
             fetched_at |-> Get(data, "fetched_at")]

\* C8: each view of a registered station answers, without error, the
\* projection whose keys carry the value of their source field, null when
\* the source field is absent.
ProjectionPassthrough ==
  (resp.op \in ViewOps /\ resp.sid \in DOMAIN ESTACIONES) =>
    /\ resp.status = 200
    /\ resp.body = ExpectedView(resp.op, resp.data)

\* C9 as stated: the ts of a cache entry never decreases.
CachedAtMonotone ==
  [][\A sid \in DOMAIN CACHE :
       sid \in DOMAIN CACHE' /\ CACHE'[sid].ts >= CACHE[sid].ts]_vars

\* C9 amended: a store writes the clock value its call read at entry,
\* which is at least 120 s later than the ts of the entry that the call
\* read at its cache check; against the entry of a concurrent call the ts
\* may decrease (the last writer wins).
StoreNewerThanSeen ==
  [][\A t \in Threads :
       (calls[t].pc = "fetch" /\ calls'[t].pc = "stored") =>
         LET sid == calls[t].station.id
         IN /\ sid \in DOMAIN CACHE'
            /\ CACHE'[sid].ts = calls[t].now
            /\ calls[t].cached # <<>> =>
                 CACHE'[sid].ts >= calls[t].cached[1].ts + 120]_vars

\* a call stored over the expired entry it had read
ExpiredEntryReplaced ==
  \E t \in Threads :
    /\ calls[t].pc = "stored"
    /\ calls[t].cached # <<>>
    /\ CACHE[calls[t].station.id].ts = calls[t].now

\* C10: the snapshot returned for a station carries the url, and a success
\* snapshot the id and nombre, registered for that station.
SnapshotDescribesConfig ==
  ServedStation =>
    /\ resp.data.url = ESTACIONES[resp.sid].url
    /\ "datos" \in DOMAIN resp.data =>
         /\ resp.data.id = ESTACIONES[resp.sid].id
         /\ resp.data.nombre = ESTACIONES[resp.sid].nombre
====
